---- MODULE Spec2Model ----
(***************************************************************************)
(* Model of module_predictor/main_predictor.py: the metric policy          *)
(* (metric_internal, metric_norm, metric_sim), the nearest-neighbour index *)
(* VSONN and the batch function predictor.                                 *)
(*                                                                         *)
(* Numbers.  Vectors are sequences of integers.  The real numbers the code *)
(* computes from them (cosine values, distances, their complements and     *)
(* inverses) are kept exactly, as records [kind, base, sgn, num, den]      *)
(* where x = sgn * sqrt(num/den) (num/den a reduced fraction) and          *)
(*     kind "cos"   denotes x                                              *)
(*     kind "1-cos" denotes 1 - x                                          *)
(*     kind "sqrt"  denotes sqrt(base - 2x)                                *)
(*     kind "inv"   denotes 1 / sqrt(base - 2x)                            *)
(*     kind "inf", "nan" denote the floating point infinity and NaN.       *)
(* A cosine, and a distance to an integer vector (x = 0, base the squared  *)
(* distance), has exactly one record, so equality of such records is       *)
(* equality of the numbers.  Distances to normalised rows are only ever    *)
(* compared, with DistLess, which is exact.                                *)
(***************************************************************************)
EXTENDS Integers, Sequences, FiniteSets, TLC

\* ------------------------------------------------------------------ bounds
MaxTerms == 2
MaxConcepts == 2

\* ------------------------------------------------------------- arithmetic
Abs(n) == IF n < 0 THEN -n ELSE n

Sgn(n) == IF n < 0 THEN -1 ELSE IF n = 0 THEN 0 ELSE 1

RECURSIVE Gcd(_, _)
Gcd(a, b) == IF b = 0 THEN a ELSE Gcd(b, a % b)

RECURSIVE SumTo(_, _)
SumTo(f, n) == IF n = 0 THEN 0 ELSE f[n] + SumTo(f, n - 1)

Dot(u, v) == SumTo([i \in 1..Len(u) |-> u[i] * v[i]], Len(u))

NormSq(u) == Dot(u, u)

ZeroVec(n) == [i \in 1..n |-> 0]

VecAdd(u, v) == [i \in 1..Len(u) |-> u[i] + v[i]]

\* The real number sgn(p) * sqrt(p*p / q), q > 0, as a record of the given kind.
Surd(kind, base, p, q) ==
    LET g == Gcd(p * p, q)
    IN  IF p = 0
        THEN [kind |-> kind, base |-> base, sgn |-> 0, num |-> 0, den |-> 1]
        ELSE [kind |-> kind, base |-> base, sgn |-> Sgn(p),
              num |-> (p * p) \div g, den |-> q \div g]

NaN == [kind |-> "nan", base |-> 0, sgn |-> 0, num |-> 0, den |-> 1]

Inf == [kind |-> "inf", base |-> 0, sgn |-> 0, num |-> 0, den |-> 1]

\* x < y for x = a.sgn*sqrt(a.num/a.den), y = b.sgn*sqrt(b.num/b.den).
SurdLess(a, b) == a.sgn * a.num * b.den < b.sgn * b.num * a.den

\* 2*x2 - 2*x1 < m for the surds x1, x2 and the integer m.  With D = 2*x2 - 2*x1:
\* for m > 0, D <= 0 or D^2 < m^2; for m <= 0, D < 0 and D^2 > m^2; and
\* D^2 - m^2 = q - 8*x1*x2 with the rational q = (4*x1^2 + 4*x2^2 - m^2),
\* compared with the surd 8*x1*x2 by sign and square.
DiffLess(x2, x1, m) ==
    LET qd == x1.den * x2.den
        qn == 4 * x2.num * x1.den + 4 * x1.num * x2.den - m * m * qd
        s  == x1.sgn * x2.sgn
        lhs == Sgn(qn) * qn * qn
        rhs == s * 64 * x1.num * x2.num * qd
    IN  IF m > 0
        THEN ~SurdLess(x1, x2) \/ lhs < rhs
        ELSE SurdLess(x2, x1) /\ lhs > rhs

\* d1 < d2 for two distances of one kind, as the index compares them.
DistLess(d1, d2) ==
    CASE d1.kind = "1-cos" -> SurdLess(d2, d1)
      [] d1.kind = "sqrt"  -> DiffLess(d2, d1, d2.base - d1.base)

IsZeroDist(d) == d.kind = "sqrt" /\ d.sgn = 0 /\ d.base = 0

\* 1 - x.
OneMinus(x) ==
    CASE x.kind = "cos"   -> [x EXCEPT !.kind = "1-cos"]
      [] x.kind = "1-cos" -> [x EXCEPT !.kind = "cos"]
      [] OTHER            -> NaN

\* 1 / d in IEEE arithmetic (numpy.float64): 1 / 0.0 is inf, no exception.
Reciprocal(d) ==
    IF IsZeroDist(d) THEN Inf ELSE [d EXCEPT !.kind = "inv"]

\* ------------------------------------------------------ distance backend
\* sklearn.preprocessing.normalize: each row divided by its L2 norm, a zero
\* row left as it is.  A row is [v, norm2]: the vector v / sqrt(norm2).
normalize(vectors) ==
    [i \in 1..Len(vectors) |->
        [v |-> vectors[i],
         norm2 |-> IF NormSq(vectors[i]) = 0 THEN 1 ELSE NormSq(vectors[i])]]

Raw(vectors) == [i \in 1..Len(vectors) |-> [v |-> vectors[i], norm2 |-> 1]]

\* The cosine of the angle of u and v; sklearn's cosine_distances normalises
\* both sides as normalize does, so a zero vector has cosine 0 with all.
CosineValue(u, v) ==
    IF NormSq(u) = 0 \/ NormSq(v) = 0
    THEN Surd("cos", 0, 0, 1)
    ELSE Surd("cos", 0, Dot(u, v), NormSq(u) * NormSq(v))

\* sklearn's cosine distance, 1 - cosine.
CosineDistance(u, v) == OneMinus(CosineValue(u, v))

\* scipy.spatial.distance.cosine: 1 - u.v / (|u| |v|), 0/0 = NaN for a zero vector.
cosine(u, v) ==
    IF NormSq(u) = 0 \/ NormSq(v) = 0 THEN NaN ELSE OneMinus(CosineValue(u, v))

\* The euclidean distance of x to the row r.v / sqrt(r.norm2):
\* sqrt(|x|^2 + |row|^2 - 2 x.v / sqrt(norm2)); for an integer row the integer
\* under the root is computed.
EuclideanDistance(x, r) ==
    IF r.norm2 = 1
    THEN Surd("sqrt", NormSq(x) + NormSq(r.v) - 2 * Dot(x, r.v), 0, 1)
    ELSE Surd("sqrt", NormSq(x) + 1, Dot(x, r.v), r.norm2)

\* The manhattan distance of x to the integer row r.v, an integer m = sqrt(m*m).
ManhattanDistance(x, r) ==
    LET m == SumTo([i \in 1..Len(x) |-> Abs(x[i] - r.v[i])], Len(x))
    IN  Surd("sqrt", m * m, 0, 1)

\* The metric names the distance backend accepts (a part of sklearn's list).
BackendMetrics == {"euclidean", "cosine", "manhattan"}

\* An exception: its Python type and what it was raised for.
ValueError(cause) == [type |-> "ValueError", cause |-> cause]

KeyError(cause) == [type |-> "KeyError", cause |-> cause]

NoError == [type |-> "none", cause |-> "none"]

\* ------------------------------------------------------------ metric policy
metric_internal(metric) ==
    IF metric = "cosine" THEN "euclidean"
    ELSE IF metric = "cosine-brute" THEN "cosine"
    ELSE metric

\* metric_norm without the normalisation for "cosine".
metric_norm_never(metric, concept_vectors) == Raw(concept_vectors)

metric_norm(metric, concept_vectors) ==
    IF metric = "cosine" THEN normalize(concept_vectors) ELSE Raw(concept_vectors)

\* metric_sim giving the distance itself for "cosine-brute".
metric_sim_distance(metric, d, vecTerm, vecConcept) ==
    IF metric = "cosine" THEN OneMinus(cosine(vecTerm, vecConcept))
    ELSE IF metric = "cosine-brute" THEN d
    ELSE Reciprocal(d)

\* metric_sim guarding the zero distance: an exact match has similarity 1.
metric_sim_guarded(metric, d, vecTerm, vecConcept) ==
    IF metric = "cosine" THEN OneMinus(cosine(vecTerm, vecConcept))
    ELSE IF metric = "cosine-brute" THEN OneMinus(d)
    ELSE IF IsZeroDist(d) THEN Surd("cos", 0, 1, 1)
    ELSE Reciprocal(d)

metric_sim(metric, d, vecTerm, vecConcept) ==
    IF metric = "cosine" THEN OneMinus(cosine(vecTerm, vecConcept))
    ELSE IF metric = "cosine-brute" THEN OneMinus(d)
    ELSE Reciprocal(d)

\* -------------------------------------------------------------------- VSONN
\* A concept space is a sequence of [id, vec]: a dict in its iteration order.
Keys(vso) == [i \in 1..Len(vso) |-> vso[i].id]

Values(vso) == [i \in 1..Len(vso) |-> vso[i].vec]

NoIndex ==
    [original_metric |-> "none", metric |-> "none", concepts |-> <<>>,
     concept_vectors |-> <<>>, fit_X |-> <<>>]

\* VSONN_raises with the empty concept space let through.
VSONN_raises_metric_only(vso, metric) ==
    IF metric_internal(metric) \notin BackendMetrics
    THEN ValueError("unsupported metric")
    ELSE NoError

\* The exception VSONN.__init__ ends with, NoError when it returns: the backend
\* rejects a metric name it does not know, and normalize and fit reject an
\* array with no row.
VSONN_raises(vso, metric) ==
    IF metric_internal(metric) \notin BackendMetrics
    THEN ValueError("unsupported metric")
    ELSE IF Len(vso) = 0 THEN ValueError("empty index")
    ELSE NoError

\* The object VSONN.__init__ leaves.
VSONN(vso, metric) ==
    [original_metric |-> metric,
     metric          |-> metric_internal(metric),
     concepts        |-> Keys(vso),
     concept_vectors |-> Values(vso),
     fit_X           |-> metric_norm(metric, Values(vso))]

\* The distance of x to row i of the fitted data, under the index's metric.
RowDistance(nn, x, i) ==
    CASE nn.metric = "euclidean" -> EuclideanDistance(x, nn.fit_X[i])
      [] nn.metric = "cosine"    -> CosineDistance(x, nn.fit_X[i].v)
      [] nn.metric = "manhattan" -> ManhattanDistance(x, nn.fit_X[i])

\* kneighbors_raises with every query let through.
kneighbors_raises_never(nn, x) == NoError

\* kneighbors rejects a query whose dimension is not the fitted rows'.
kneighbors_raises(nn, x) ==
    IF Len(x) # Len(nn.fit_X[1].v) THEN ValueError("bad input shape") ELSE NoError

\* kneighbors([x], 1, return_distance=True): the results [d, idx] it can give,
\* idx a row at least distance; which of several such rows it gives is the
\* backend's choice (brute force, k-d tree or ball tree, by algorithm='auto').
kneighbors(nn, x) ==
    {[d |-> RowDistance(nn, x, i), idx |-> i] : i \in
        {i \in 1..Len(nn.fit_X) :
            \A j \in 1..Len(nn.fit_X) :
                ~DistLess(RowDistance(nn, x, j), RowDistance(nn, x, i))}}

\* nearest_concept: the pairs <<concept id, similarity>> it can return.
nearest_concept(nn, vecTerm) ==
    {<<nn.concepts[r.idx],
       metric_sim(nn.original_metric, r.d, vecTerm, nn.concept_vectors[r.idx])>> :
        r \in kneighbors(nn, vecTerm)}

\* ---------------------------------------------------------- term vectorizer
\* utils.word2term, which predictor calls: getFormOfTerm joins the tokens with
\* the symbol; wordVST2TermVST keys each term's vector (the sum of the vectors
\* of its tokens found in the store) by its form under the default symbol, the
\* call giving it none, and collects the tokens not found.
DefaultSymbol == "___"

RECURSIVE getFormOfTerm(_, _)
getFormOfTerm(l_tokens, sym) ==
    IF Len(l_tokens) = 0 THEN ""
    ELSE IF Len(l_tokens) = 1 THEN l_tokens[1]
    ELSE l_tokens[1] \o sym \o getFormOfTerm(Tail(l_tokens), sym)

StoreDim(vst) == Len(vst[CHOOSE t \in DOMAIN vst : TRUE])

RECURSIVE TermVector(_, _)
TermVector(vst, l_tokens) ==
    IF Len(l_tokens) = 0 THEN ZeroVec(StoreDim(vst))
    ELSE IF l_tokens[1] \in DOMAIN vst
         THEN VecAdd(vst[l_tokens[1]], TermVector(vst, Tail(l_tokens)))
         ELSE TermVector(vst, Tail(l_tokens))

TokensOf(dl) == UNION {{dl[k].tokens[n] : n \in 1..Len(dl[k].tokens)} : k \in 1..Len(dl)}

wordVST2TermVST(vst, dl) ==
    [vstTerm |->
        [f \in {getFormOfTerm(dl[k].tokens, DefaultSymbol) : k \in 1..Len(dl)} |->
            TermVector(vst,
                dl[CHOOSE k \in 1..Len(dl) :
                      /\ getFormOfTerm(dl[k].tokens, DefaultSymbol) = f
                      /\ \A k2 \in (k + 1)..Len(dl) :
                            getFormOfTerm(dl[k2].tokens, DefaultSymbol) # f].tokens)],
     l_unknownToken |-> {t \in TokensOf(dl) : t \notin DOMAIN vst}]

\* ---------------------------------------------------------- projection model
\* LinearRegression.predict on one row: coef . x + intercept.
predict(model, x) ==
    [k \in 1..Len(model.coef) |-> Dot(model.coef[k], x) + model.intercept[k]]

\* ------------------------------------------------------------------ inputs
\* The sequences over S of length at most n that repeat no element.
InjSeqs(S, n) ==
    {q \in UNION {[1..m -> S] : m \in 0..n} :
        \A a, b \in 1..Len(q) : a # b => q[a] # q[b]}

TermIds == {"t1", "t2", "t3"}

TokenLists == {<<"a", "b">>, <<"a">>, <<"a", "z">>, <<"z">>}

\* The term dictionaries: at most MaxTerms distinct ids, in any order.
TermDicts ==
    UNION {{[k \in 1..Len(ids) |-> [id |-> ids[k], tokens |-> toks[k]]] :
                toks \in [1..Len(ids) -> TokenLists]} :
           ids \in InjSeqs(TermIds, MaxTerms)}

TokenStores ==
    {[t \in {"a", "b"} |-> IF t = "a" THEN <<1, 0>> ELSE <<0, 1>>],
     [t \in {"a", "b"} |-> IF t = "a" THEN <<1, 2>> ELSE <<-1, -2>>]}

Concept(id, vec) == [id |-> id, vec |-> vec]

ConceptSpacesOfBatch ==
    {<<>>,
     <<Concept("c1", <<1, 1>>), Concept("c2", <<-1, -1>>)>>,
     <<Concept("c1", <<1, 0>>), Concept("c2", <<2, 0>>)>>,
     <<Concept("c1", <<0, 0>>), Concept("c2", <<1, 2>>)>>}

\* Fitted models: the identity, a shift, and a map into one dimension.
ProjectionModels ==
    {[coef |-> <<<<1, 0>>, <<0, 1>>>>, intercept |-> <<0, 0>>],
     [coef |-> <<<<1, 0>>, <<0, 1>>>>, intercept |-> <<0, 1>>],
     [coef |-> <<<<1, 1>>>>, intercept |-> <<0>>]}

\* "minkowsky" is a name the backend does not know.
MetricsOfBatch == {"cosine", "cosine-brute", "euclidean", "manhattan", "minkowsky"}

Symbols == {DefaultSymbol, "+"}

\* ------------------------------------------------------------------- state
VARIABLES
    vst_onlyTokens, dl_terms, vso, transformationParam, metric, symbol,
    pc, id_pos, vstTerm, l_unknownToken, vsoNN, vsoTerms, result,
    lt_predictions, raised, returned,
    indexBuilds, predictCalls, queryCalls,
    nnVec, nnOut, nnRef

inputs == <<vst_onlyTokens, dl_terms, vso, transformationParam, metric, symbol>>

locals == <<vstTerm, l_unknownToken, vsoNN, vsoTerms, result, lt_predictions>>

calls == <<indexBuilds, predictCalls, queryCalls>>

nnvars == <<nnVec, nnOut, nnRef>>

vars == <<inputs, pc, id_pos, locals, raised, returned, calls, nnvars>>

EmptyDict == [k \in {} |-> 0]

NotReturned == [lt_predictions |-> <<>>, l_unknownToken |-> {}, returned |-> FALSE]

NoResult == <<"none", NaN>>

\* d with d[key] = value, as a dict assignment leaves it.
DictSet(d, key, value) ==
    [k \in DOMAIN d \cup {key} |-> IF k = key THEN value ELSE d[k]]

\* ResultKey keyed by the term id.
ResultKey_by_id(id_term, termForm) == id_term

\* The key the per-term result is stored and read under (lines 108 and 112).
ResultKey(id_term, termForm) == termForm

\* NeedsProjection skipping a term form that has a stored result.
NeedsProjection_once(termForm, res) == termForm \notin DOMAIN res

\* Whether the first loop projects and queries for this term id: always.
NeedsProjection(termForm, res) == TRUE

\* Prediction with the id put first.
Prediction_id_first(termForm, id_term, cat, sim) == <<id_term, termForm, cat, sim>>

\* The prediction tuple of line 113.
Prediction(termForm, id_term, cat, sim) == <<termForm, id_term, cat, sim>>

\* predictor's locals as its first lines leave them.
Init ==
    /\ vst_onlyTokens \in TokenStores
    /\ dl_terms \in TermDicts
    /\ vso \in ConceptSpacesOfBatch
    /\ transformationParam \in ProjectionModels
    /\ metric \in MetricsOfBatch
    /\ symbol \in Symbols
    /\ pc = "start"
    /\ id_pos = 1
    /\ vstTerm = EmptyDict
    /\ l_unknownToken = {}
    /\ vsoNN = NoIndex
    /\ vsoTerms = EmptyDict
    /\ result = EmptyDict
    /\ lt_predictions = <<>>
    /\ raised = NoError
    /\ returned = NotReturned
    /\ indexBuilds = 0
    /\ predictCalls = <<>>
    /\ queryCalls = <<>>
    /\ nnVec = <<>>
    /\ nnOut = NoResult
    /\ nnRef = NoResult

\* Where the first loop stands after k - 1 term ids.
AfterProject(k) ==
    IF k <= Len(dl_terms) THEN "project"
    ELSE IF Len(dl_terms) > 0 THEN "emit" ELSE "return"

\* Line 98.
Vectorize ==
    /\ pc = "start"
    /\ LET r == wordVST2TermVST(vst_onlyTokens, dl_terms)
       IN  /\ vstTerm' = r.vstTerm
           /\ l_unknownToken' = r.l_unknownToken
    /\ pc' = "vectorized"
    /\ UNCHANGED <<inputs, id_pos, vsoNN, vsoTerms, result, lt_predictions,
                   raised, returned, calls, nnvars>>

\* Lines 100-103: the index is constructed, or its constructor raises.
BuildIndex ==
    /\ pc = "vectorized"
    /\ indexBuilds' = indexBuilds + 1
    /\ IF VSONN_raises(vso, metric) # NoError
       THEN /\ raised' = VSONN_raises(vso, metric)
            /\ pc' = "error"
            /\ UNCHANGED vsoNN
       ELSE /\ vsoNN' = VSONN(vso, metric)
            /\ pc' = AfterProject(1)
            /\ UNCHANGED raised
    /\ UNCHANGED <<inputs, id_pos, vstTerm, l_unknownToken, vsoTerms, result,
                   lt_predictions, returned, predictCalls, queryCalls, nnvars>>

\* Lines 104-108, for one term id: the form, the lookup of its vector, the
\* projection and the query.
ProjectTerm ==
    /\ pc = "project"
    /\ LET id_term  == dl_terms[id_pos].id
           termForm == getFormOfTerm(dl_terms[id_pos].tokens, symbol)
       IN  IF ~NeedsProjection(termForm, result)
           THEN /\ pc' = AfterProject(id_pos + 1)
                /\ id_pos' = IF id_pos = Len(dl_terms) THEN 1 ELSE id_pos + 1
                /\ UNCHANGED <<vsoTerms, result, raised, predictCalls, queryCalls>>
           ELSE IF termForm \notin DOMAIN vstTerm
           THEN /\ raised' = KeyError("term form")
                /\ pc' = "error"
                /\ UNCHANGED <<id_pos, vsoTerms, result, predictCalls, queryCalls>>
           ELSE LET v == predict(transformationParam, vstTerm[termForm])
                IN  /\ vsoTerms' = DictSet(vsoTerms, termForm, v)
                    /\ predictCalls' = Append(predictCalls, termForm)
                    /\ queryCalls' = Append(queryCalls, termForm)
                    /\ IF kneighbors_raises(vsoNN, v) # NoError
                       THEN /\ raised' = kneighbors_raises(vsoNN, v)
                            /\ pc' = "error"
                            /\ UNCHANGED <<id_pos, result>>
                       ELSE /\ \E r \in nearest_concept(vsoNN, v) :
                                 result' = DictSet(result, ResultKey(id_term, termForm), r)
                            /\ pc' = AfterProject(id_pos + 1)
                            /\ id_pos' = IF id_pos = Len(dl_terms) THEN 1 ELSE id_pos + 1
                            /\ UNCHANGED raised
    /\ UNCHANGED <<inputs, vstTerm, l_unknownToken, vsoNN, lt_predictions,
                   returned, indexBuilds, nnvars>>

\* Lines 110-114, for one term id.
EmitPrediction ==
    /\ pc = "emit"
    /\ LET id_term  == dl_terms[id_pos].id
           termForm == getFormOfTerm(dl_terms[id_pos].tokens, symbol)
           stored   == result[ResultKey(id_term, termForm)]
       IN  lt_predictions' =
               Append(lt_predictions, Prediction(termForm, id_term, stored[1], stored[2]))
    /\ id_pos' = id_pos + 1
    /\ pc' = IF id_pos = Len(dl_terms) THEN "return" ELSE "emit"
    /\ UNCHANGED <<inputs, vstTerm, l_unknownToken, vsoNN, vsoTerms, result,
                   raised, returned, calls, nnvars>>

\* Line 116.
Return ==
    /\ pc = "return"
    /\ returned' = [lt_predictions |-> lt_predictions,
                    l_unknownToken |-> l_unknownToken, returned |-> TRUE]
    /\ pc' = "done"
    /\ UNCHANGED <<inputs, id_pos, locals, raised, calls, nnvars>>

Next == Vectorize \/ BuildIndex \/ ProjectTerm \/ EmitPrediction \/ Return

Spec == Init /\ [][Next]_vars

\* ------------------------------------------- the index on its own (SpecNN)
\* nearest_concept applied to every concept space of at most MaxConcepts
\* vectors of QueryVectors and every query vector, under each metric; then the
\* same query on an index built for "cosine-brute" over the same space.
Coordinates == {-1, 0, 1, 2}

QueryVectors == {<<x, y>> : x \in Coordinates, y \in Coordinates \ {-1}}

ConceptIds == [k \in 1..(MaxConcepts + 1) |-> "c" \o ToString(k)]

ConceptSpaces ==
    UNION {{[k \in 1..m |-> Concept(ConceptIds[k], vecs[k])] :
                vecs \in [1..m -> QueryVectors]} : m \in 0..MaxConcepts}

MetricsOfIndex == {"cosine", "cosine-brute", "euclidean", "manhattan"}

InitNN ==
    /\ vso \in ConceptSpaces
    /\ metric \in MetricsOfIndex
    /\ nnVec \in QueryVectors
    /\ pc = "nn_start"
    /\ vst_onlyTokens = [t \in {} |-> <<>>]
    /\ dl_terms = <<>>
    /\ transformationParam = [coef |-> <<>>, intercept |-> <<>>]
    /\ symbol = DefaultSymbol
    /\ id_pos = 1
    /\ vstTerm = EmptyDict
    /\ l_unknownToken = {}
    /\ vsoNN = NoIndex
    /\ vsoTerms = EmptyDict
    /\ result = EmptyDict
    /\ lt_predictions = <<>>
    /\ raised = NoError
    /\ returned = NotReturned
    /\ indexBuilds = 0
    /\ predictCalls = <<>>
    /\ queryCalls = <<>>
    /\ nnOut = NoResult
    /\ nnRef = NoResult

\* VSONN(vso, metric).
NNConstruct ==
    /\ pc = "nn_start"
    /\ IF VSONN_raises(vso, metric) # NoError
       THEN /\ raised' = VSONN_raises(vso, metric)
            /\ pc' = "error"
            /\ UNCHANGED vsoNN
       ELSE /\ vsoNN' = VSONN(vso, metric)
            /\ pc' = "nn_built"
            /\ UNCHANGED raised
    /\ UNCHANGED <<inputs, id_pos, vstTerm, l_unknownToken, vsoTerms, result,
                   lt_predictions, returned, calls, nnvars>>

\* vsoNN.nearest_concept(nnVec).
NNQuery ==
    /\ pc = "nn_built"
    /\ \E r \in nearest_concept(vsoNN, nnVec) : nnOut' = r
    /\ pc' = "nn_queried"
    /\ UNCHANGED <<inputs, id_pos, locals, raised, returned, calls, nnVec, nnRef>>

\* VSONN(vso, "cosine-brute").nearest_concept(nnVec).
NNCrossQuery ==
    /\ pc = "nn_queried"
    /\ \E r \in nearest_concept(VSONN(vso, "cosine-brute"), nnVec) : nnRef' = r
    /\ pc' = "nn_done"
    /\ UNCHANGED <<inputs, id_pos, locals, raised, returned, calls, nnVec, nnOut>>

NextNN == NNConstruct \/ NNQuery \/ NNCrossQuery

SpecNN == InitNN /\ [][NextNN]_vars

\* ------------------------------------------------------------------ claims
FormOf(k) == getFormOfTerm(dl_terms[k].tokens, symbol)

Records == returned.lt_predictions

RowsOf(c) == {k \in 1..Len(vso) : vso[k].id = c}

VecOf(c) == vso[CHOOSE k \in RowsOf(c) : TRUE].vec

AbsentTokens == {t \in TokensOf(dl_terms) : t \notin DOMAIN vst_onlyTokens}

\* The conditions of the three configuration errors, on the inputs alone.
UnsupportedMetric == metric_internal(metric) \notin BackendMetrics

EmptyConceptSpace == Len(vso) = 0

DimensionMismatch ==
    /\ Len(dl_terms) > 0
    /\ Len(vso) > 0
    /\ Len(transformationParam.coef) # Len(vso[1].vec)

ConfigError == UnsupportedMetric \/ EmptyConceptSpace \/ DimensionMismatch

ConfigCauses == {"unsupported metric", "empty index", "bad input shape"}

\* C1: when predictor returns, its list holds one record per term id of
\* dl_terms, in the iteration order of the ids, and record k is (the term form
\* of id k, id k, the concept and the similarity stored for that form).
C1_OneRecordPerTermId ==
    pc = "done" =>
        /\ Len(Records) = Len(dl_terms)
        /\ \A k \in 1..Len(dl_terms) :
            /\ Len(Records[k]) = 4
            /\ Records[k][1] = FormOf(k)
            /\ Records[k][2] = dl_terms[k].id
            /\ RowsOf(Records[k][3]) # {}
            /\ <<Records[k][3], Records[k][4]>> = result[FormOf(k)]

\* C1's case: a returned batch of two ids that are not in sorted order.
C1_Witness ==
    /\ pc = "done"
    /\ Len(dl_terms) = 2
    /\ dl_terms[1].id = "t3"
    /\ dl_terms[2].id = "t1"
    /\ Len(Records) = 2

\* C2: in the returned list, two term ids with the same token sequence have
\* records with the same term form, concept id and similarity.
C2_SameTokensSameRecord ==
    pc = "done" =>
        \A i, j \in 1..Len(dl_terms) :
            dl_terms[i].tokens = dl_terms[j].tokens =>
                /\ Records[i][1] = Records[j][1]
                /\ Records[i][3] = Records[j][3]
                /\ Records[i][4] = Records[j][4]

\* C2's case: two ids share their tokens and the index had two nearest concepts
\* to choose from for them.
C2_Witness ==
    /\ pc = "done"
    /\ \E i, j \in 1..Len(dl_terms) :
        /\ i # j
        /\ dl_terms[i].tokens = dl_terms[j].tokens
        /\ Cardinality(nearest_concept(vsoNN, vsoTerms[FormOf(i)])) > 1

\* C3: under "cosine-brute" the concept nearest_concept returns is one whose
\* vector is at the least cosine distance from the query vector among all the
\* concepts, and the similarity is 1 minus the cosine distance of the query
\* vector and that concept's own vector.
C3_CosineBrute ==
    (pc \in {"nn_queried", "nn_done"} /\ metric = "cosine-brute") =>
        /\ RowsOf(nnOut[1]) # {}
        /\ \A j \in 1..Len(vso) :
              ~DistLess(CosineDistance(nnVec, vso[j].vec),
                        CosineDistance(nnVec, VecOf(nnOut[1])))
        /\ nnOut[2] = OneMinus(CosineDistance(nnVec, VecOf(nnOut[1])))

\* C3's case: the nearest concept is the second row, strictly nearer than the first.
C3_Witness ==
    /\ pc = "nn_queried"
    /\ metric = "cosine-brute"
    /\ Len(vso) = 2
    /\ nnOut[1] = vso[2].id
    /\ DistLess(CosineDistance(nnVec, vso[2].vec), CosineDistance(nnVec, vso[1].vec))
    /\ nnOut[2] # Surd("cos", 0, 0, 1)

\* The concepts at the least cosine distance from the query vector.
CosineNearest ==
    {vso[k].id : k \in {k \in 1..Len(vso) :
        \A j \in 1..Len(vso) :
            ~DistLess(CosineDistance(nnVec, vso[j].vec),
                      CosineDistance(nnVec, vso[k].vec))}}

NoZeroConcept == \A k \in 1..Len(vso) : NormSq(vso[k].vec) # 0

\* C4 as stated, in the form it takes when the choice among concepts at equal
\* distance is left to the backend: on every (V, C), the concept returned under
\* "cosine" is a concept that "cosine-brute" returns on the same (V, C).
C4_SameConceptAsBrute ==
    (pc = "nn_done" /\ metric = "cosine") =>
        nnOut[1] \in {r[1] : r \in nearest_concept(VSONN(vso, "cosine-brute"), nnVec)}

\* C4, amended: when no concept vector of C is the zero vector, the concept
\* returned under "cosine" is at the least cosine distance from V, as the one
\* returned under "cosine-brute" is, and the two are the same concept whenever
\* a single concept is at that least distance.
C4_SameConceptNoZeroNoTie ==
    (pc = "nn_done" /\ metric = "cosine" /\ NoZeroConcept) =>
        /\ nnOut[1] \in CosineNearest
        /\ nnRef[1] \in CosineNearest
        /\ Cardinality(CosineNearest) = 1 => nnOut[1] = nnRef[1]

\* C4's case: two non-zero concepts, the second one alone the nearest.
C4_Witness ==
    /\ pc = "nn_done"
    /\ metric = "cosine"
    /\ NoZeroConcept
    /\ Len(vso) = 2
    /\ CosineNearest = {vso[2].id}
    /\ nnOut[1] = vso[2].id

\* C5: with an empty concept space predictor ends in the ValueError raised by
\* the construction of the index: once past line 103 it is in the error outcome,
\* no index exists, no projection and no query was made, and no record was
\* made or returned.
C5_EmptySpaceFailsAtConstruction ==
    (EmptyConceptSpace /\ pc \notin {"start", "vectorized"}) =>
        /\ pc = "error"
        /\ raised.type = "ValueError"
        /\ raised.cause \in {"empty index", "unsupported metric"}
        /\ ~UnsupportedMetric => raised.cause = "empty index"
        /\ vsoNN = NoIndex
        /\ indexBuilds = 1
        /\ predictCalls = <<>>
        /\ queryCalls = <<>>
        /\ lt_predictions = <<>>
        /\ returned = NotReturned

\* C5's case: a batch with terms and an empty concept space has failed.
C5_Witness ==
    /\ pc = "error"
    /\ EmptyConceptSpace
    /\ Len(dl_terms) > 0
    /\ raised = ValueError("empty index")

\* What the code raises for each of the three configuration errors.
ConfigFailures ==
    {VSONN_raises(<<>>, "cosine"),
     VSONN_raises(<<Concept("c1", <<1, 1>>)>>, "minkowsky"),
     kneighbors_raises(VSONN(<<Concept("c1", <<1, 1>>)>>, "cosine"), <<1>>)}

\* C6 as stated: a batch aborted by a configuration error fails with a type
\* that the other two configuration errors do not fail with.
C6_FailuresDistinguishable ==
    (pc = "error" /\ raised.cause \in ConfigCauses) =>
        /\ returned = NotReturned
        /\ \A f \in ConfigFailures : f.cause # raised.cause => f.type # raised.type

\* C6, amended: each of the three configuration errors aborts the whole batch
\* (predictor never reaches its second loop or its return, and no record is
\* made), with the backend's exception, a ValueError in all three cases: the
\* three differ in what was raised for, not in type.
C6_ConfigErrorAborts ==
    /\ (ConfigError /\ pc \notin {"start", "vectorized", "project"}) =>
            /\ pc = "error"
            /\ lt_predictions = <<>>
            /\ returned = NotReturned
    /\ (pc = "error" /\ raised.cause \in ConfigCauses) =>
            /\ raised.type = "ValueError"
            /\ raised \in ConfigFailures
            /\ raised.cause = "unsupported metric" => UnsupportedMetric
            /\ raised.cause = "empty index" => EmptyConceptSpace
            /\ raised.cause = "bad input shape" => DimensionMismatch

\* C6's case: a batch aborted by a query vector of the wrong dimension.
C6_Witness ==
    /\ pc = "error"
    /\ raised = ValueError("bad input shape")
    /\ DimensionMismatch
    /\ Len(dl_terms) = 2

\* C7: a batch with tokens absent from the store, and none of the three
\* configuration errors, does not abort: it ends returned, with one record per
\* term id and every absent token in the unknown tokens returned.
C7_UnknownTokensNeverAbort ==
    (pc \in {"done", "error"} /\ AbsentTokens # {} /\ ~ConfigError) =>
        /\ pc = "done"
        /\ Len(Records) = Len(dl_terms)
        /\ AbsentTokens \subseteq returned.l_unknownToken

\* The squared distance of u and v under a metric that is passed through.
SquaredGap(m, u, v) ==
    IF m = "euclidean"
    THEN SumTo([i \in 1..Len(u) |-> (u[i] - v[i]) * (u[i] - v[i])], Len(u))
    ELSE SumTo([i \in 1..Len(u) |-> Abs(u[i] - v[i])], Len(u))
         * SumTo([i \in 1..Len(u) |-> Abs(u[i] - v[i])], Len(u))

PassedThrough == metric \notin {"cosine", "cosine-brute"}

\* C8 as stated: under a metric that is passed through, every record's
\* similarity is 1 / distance, and no record comes of a distance of zero.
C8_ZeroDistanceIsError ==
    (pc = "done" /\ PassedThrough) =>
        \A k \in 1..Len(Records) :
            /\ vsoTerms[FormOf(k)] # VecOf(Records[k][3])
            /\ Records[k][4] =
                  [kind |-> "inv", sgn |-> 0, num |-> 0, den |-> 1,
                   base |-> SquaredGap(metric, vsoTerms[FormOf(k)], VecOf(Records[k][3]))]

\* C8, amended: under a metric that is passed through, every record's
\* similarity is 1 / distance, and a distance of zero is not refused: the
\* record is made, with the floating point infinity as its similarity.
C8_ZeroDistanceIsInfinity ==
    (pc = "done" /\ PassedThrough) =>
        \A k \in 1..Len(Records) :
            Records[k][4] =
                IF vsoTerms[FormOf(k)] = VecOf(Records[k][3])
                THEN Inf
                ELSE [kind |-> "inv", sgn |-> 0, num |-> 0, den |-> 1,
                      base |-> SquaredGap(metric, vsoTerms[FormOf(k)], VecOf(Records[k][3]))]

\* C8's case: a returned record whose concept vector is the projected vector.
C8_Witness ==
    /\ pc = "done"
    /\ PassedThrough
    /\ \E k \in 1..Len(Records) :
        /\ vsoTerms[FormOf(k)] = VecOf(Records[k][3])
        /\ Records[k][4] = Inf

Forms == [k \in 1..Len(dl_terms) |-> FormOf(k)]

\* C9 as stated: once the first loop is over, the index was built once and
\* predict and the query were each called once per distinct term form.
C9_OncePerTermForm ==
    pc \in {"emit", "return", "done"} =>
        /\ indexBuilds = 1
        /\ \A f \in {Forms[k] : k \in 1..Len(Forms)} :
            /\ Cardinality({n \in 1..Len(predictCalls) : predictCalls[n] = f}) = 1
            /\ Cardinality({n \in 1..Len(queryCalls) : queryCalls[n] = f}) = 1

\* C9, amended: the index is built once, and predict and the query are each
\* called once per term id, in the order of the ids, so k times for a term form
\* that k ids share; the second loop calls neither.
C9_OncePerTermId ==
    pc \in {"emit", "return", "done"} =>
        /\ indexBuilds = 1
        /\ predictCalls = Forms
        /\ queryCalls = Forms

\* C9's case: a returned batch in which two ids share a term form.
C9_Witness ==
    /\ pc = "done"
    /\ \E i, j \in 1..Len(dl_terms) : i # j /\ FormOf(i) = FormOf(j)
    /\ Len(predictCalls) = Len(dl_terms)

\* C10: whatever the symbol, the term form predictor computes for a term id is
\* a key of vstTerm when line 106 looks it up, so the lookup never fails.
C10_TermFormIsKey ==
    /\ pc = "project" => FormOf(id_pos) \in DOMAIN vstTerm
    /\ raised.type # "KeyError"

====
